---- MODULE Spec2Model ----
(***************************************************************************)
(* Verification model of go-testdeep:                                      *)
(*   - helpers/tdutil/sort.go : SortableValues, rValues.Less/Swap, cmp     *)
(*   - td_delay (tdDelay)     : Delay, getOperator, Match/String/...       *)
(*   - td_shallow.go          : Shallow, tdShallow.Match                   *)
(*   - td/td_tag.go           : Tag, tdTag.Match/String/TypeBehind         *)
(*   - ctxerr (Error)         : Error.Append                               *)
(*   - td field paths         : splitFieldPath, joinFieldPath,             *)
(*                              buildFieldPathFn                           *)
(*   - SubSetOf               : the subset-containment operator            *)
(***************************************************************************)
EXTENDS Integers, Sequences, FiniteSets, TLC

(***************************************************************************)
(* Bounds of the model.                                                    *)
(***************************************************************************)
\* longest slice of numbers handed to SortableValues
MaxLen == 3
\* longest slice of references (pointers, slices, maps, interfaces)
MaxRefs == 2
\* deepest nesting of cmp calls followed before the comparison is given up
MaxDepth == 12
\* threads sharing one Delay wrapper, and the calls each of them makes
NumThreads == 2
MaxCalls == 2
\* longest name given to Tag
MaxTag == 2
\* most errors linked by Next in the chain handed to Append, not counting
\* ErrTooManyErrors, and the most tabs in the prefix given to Append
MaxChain == 2
MaxPrefix == 1
\* the items compared by SubSetOf are 1..MaxItem; longest array or slice
\* matched, and most expected items given to SubSetOf
MaxItem == 3
MaxItems == 3
MaxCandidates == 2
\* longest field path, in characters
MaxPath == 4

VARIABLES
    Slice,      \* rValues.Slice: the []reflect.Value being sorted
    Visited,    \* rValues.Visited: the visited-pair set handed to every cmp
    last,       \* the last call made on the sort.Interface and what it returned
    delayed,    \* tdDelay.delayed: what the thunk given to Delay does
    operator,   \* tdDelay.operator: 0 is nil, n the operator built by the n-th thunk call
    once,       \* tdDelay.once: [done, m], m the thread holding the mutex (0: free)
    calls,      \* how many times the thunk has been invoked
    pc,         \* where each thread is in its call on the wrapper
    meth,       \* the method each thread is in
    op,         \* the local "op" of each thread: what getOperator returned to it
    fwd,        \* the operators each thread has forwarded a call to
    ncalls,     \* the calls each thread has started
    shallow,    \* the tdShallow last built by Shallow
    tag,        \* the tdTag last built by Tag
    ret,        \* what the last constructor or Match call on them gave back
    tagret,     \* what the last String or TypeBehind call on the tdTag gave back
    chain,      \* the *ctxerr.Error handed to Append
    buf,        \* the bytes.Buffer Append writes to, and the call that filled it
    fp,         \* the field path last split, joined, compiled or run
    sub         \* the SubSetOf operator built and what its last Match gave

sortVars == <<Slice, Visited, last>>
delayVars == <<delayed, operator, once, calls, pc, meth, op, fwd, ncalls>>
opVars == <<shallow, tag, ret>>
restVars == <<tagret, chain, buf, fp, sub>>
vars == <<Slice, Visited, last, delayed, operator, once, calls, pc, meth, op, fwd, ncalls,
          shallow, tag, ret, tagret, chain, buf, fp, sub>>

(***************************************************************************)
(* reflect.Value.  Every value is a record of the same shape:              *)
(*   k kind, t type name, n integer payload (bool, int, length),           *)
(*   p address (pointer, backing array, map, func), f/g float payloads     *)
(*   (float; real and imaginary part), s string bytes, e boxed value.      *)
(***************************************************************************)
Fl(x) == [nan |-> FALSE, x |-> x]
NaN == [nan |-> TRUE, x |-> 0]

Val(k, t, n, p, f, g, s) == [k |-> k, t |-> t, n |-> n, p |-> p, f |-> f, g |-> g, s |-> s]

\* reflect.ValueOf(nil): the zero reflect.Value, IsValid() is false
Invalid == Val("invalid", "", 0, 0, Fl(0), Fl(0), <<>>)
BoolV(b) == Val("bool", "bool", IF b THEN 1 ELSE 0, 0, Fl(0), Fl(0), <<>>)
IntV(n) == Val("int", "int", n, 0, Fl(0), Fl(0), <<>>)
FloatV(f) == Val("float", "float64", 0, 0, f, Fl(0), <<>>)
ComplexV(re, im) == Val("complex", "complex128", 0, 0, re, im, <<>>)
StringV(s) == Val("string", "string", 0, 0, Fl(0), Fl(0), s)
PtrV(t, p) == Val("ptr", t, 0, p, Fl(0), Fl(0), <<>>)
SliceV(t, p, n) == Val("slice", t, n, p, Fl(0), Fl(0), <<>>)
MapV(t, p) == Val("map", t, 0, p, Fl(0), Fl(0), <<>>)
FuncV(p) == Val("func", "func()", 0, p, Fl(0), Fl(0), <<>>)
ChanV(p) == Val("chan", "chan int", 0, p, Fl(0), Fl(0), <<>>)
UnsafePtrV(p) == Val("unsafe.Pointer", "unsafe.Pointer", 0, p, Fl(0), Fl(0), <<>>)
\* an interface{} holding the dynamic value stored at box p (0: nil interface)
IfaceV(p) == Val("iface", "interface {}", 0, p, Fl(0), Fl(0), <<>>)
\* a struct value whose fields are stored at p
StructV(t, p) == Val("struct", t, 0, p, Fl(0), Fl(0), <<>>)

(***************************************************************************)
(* reflect.Type.String(): the type names, as the byte strings Go compares. *)
(***************************************************************************)
TypeString(t) ==
    CASE t = "bool" -> <<98, 111, 111, 108>>
      [] t = "int" -> <<105, 110, 116>>
      [] t = "float64" -> <<102, 108, 111, 97, 116, 54, 52>>
      [] t = "complex128" -> <<99, 111, 109, 112, 108, 101, 120, 49, 50, 56>>
      [] t = "string" -> <<115, 116, 114, 105, 110, 103>>
      [] t = "*int" -> <<42, 105, 110, 116>>
      [] t = "[]int" -> <<91, 93, 105, 110, 116>>
      [] t = "map[int]int" -> <<109, 97, 112, 91, 105, 110, 116, 93, 105, 110, 116>>
      [] t = "func()" -> <<102, 117, 110, 99, 40, 41>>
      [] t = "interface {}" -> <<105, 110, 116, 101, 114, 102, 97, 99, 101, 32, 123, 125>>
      [] t = "*interface {}" -> <<42, 105, 110, 116, 101, 114, 102, 97, 99, 101, 32, 123, 125>>
      [] t = "main.P" -> <<109, 97, 105, 110, 46, 80>>
      [] t = "main.N" -> <<109, 97, 105, 110, 46, 78>>
      [] t = "*main.N" -> <<42, 109, 97, 105, 110, 46, 78>>
      [] t = "main.S" -> <<109, 97, 105, 110, 46, 83>>

\* Go's < on strings: bytewise lexicographic order
RECURSIVE StrLess(_, _)
StrLess(a, b) ==
    IF b = <<>> THEN FALSE
    ELSE IF a = <<>> THEN TRUE
    ELSE IF Head(a) # Head(b) THEN Head(a) < Head(b)
    ELSE StrLess(Tail(a), Tail(b))

\* Go's < and > on float64: false as soon as one operand is a NaN
FloatLess(a, b) == ~a.nan /\ ~b.nan /\ a.x < b.x

(***************************************************************************)
(* The memory the values of the model live in.  It is never written while  *)
(* a slice is sorted.  Address 0 is nil.                                   *)
(*   type P *P           4 -> 4 (points to itself), 5 -> 6 -> 5            *)
(*   type N struct{L, R *N}                                                *)
(*                       7 = {L: 7, R: 8}, 8 = {L: 8, R: 7}, 9 = {nil, 7}  *)
(*   var i interface{}; i = &i      pointer 10, box 19                     *)
(*   type S []S          backing array 13 holds the slice (13, 1) itself   *)
(***************************************************************************)
NilPtr == 0

\* reflect.Value.Elem() of a non-nil pointer
Deref(p) ==
    CASE p = 1 -> IntV(5)
      [] p = 2 -> IntV(5)
      [] p = 3 -> IntV(7)
      [] p = 4 -> PtrV("main.P", 4)
      [] p = 5 -> PtrV("main.P", 6)
      [] p = 6 -> PtrV("main.P", 5)
      [] p = 7 -> StructV("main.N", 7)
      [] p = 8 -> StructV("main.N", 8)
      [] p = 9 -> StructV("main.N", 9)
      [] p = 10 -> IfaceV(19)

\* reflect.Value.Elem() of a non-nil interface
Box(p) ==
    CASE p = 19 -> PtrV("*interface {}", 10)
      [] p = 20 -> IntV(1)
      [] p = 21 -> FloatV(NaN)
      [] p = 22 -> IntV(2)

\* reflect.Value.Field(i), i = 1..NumField()
Fields(p) ==
    CASE p = 7 -> <<PtrV("*main.N", 7), PtrV("*main.N", 8)>>
      [] p = 8 -> <<PtrV("*main.N", 8), PtrV("*main.N", 7)>>
      [] p = 9 -> <<PtrV("*main.N", NilPtr), PtrV("*main.N", 7)>>

\* the backing array of a slice; Index(i) of a slice (p, n) is Backing(p)[i]
Backing(p) ==
    CASE p = 11 -> <<IntV(1), IntV(2), IntV(3)>>
      [] p = 12 -> <<IntV(1), IntV(2), IntV(4)>>
      [] p = 13 -> <<SliceV("main.S", 13, 1)>>
      [] p = 14 -> <<SliceV("main.S", 14, 1), SliceV("main.S", 13, 1)>>

\* reflect.Value.Len() of a map, and what the map holds (its key/value pairs)
MapLen(p) ==
    CASE p = NilPtr -> 0
      [] p = 15 -> 1
      [] p = 16 -> 2
      [] p = 17 -> 1
      [] p = 18 -> 1

MapData(p) ==
    CASE p = NilPtr -> {}
      [] p = 15 -> {<<1, 1>>}
      [] p = 16 -> {<<0, 0>>, <<2, 2>>}
      [] p = 17 -> {<<0, 0>>}
      [] p = 18 -> {<<1, 1>>}

IsValid(a) == a.k # "invalid"
IsNil(a) == a.p = NilPtr
VLen(a) == IF a.k = "map" THEN MapLen(a.p) ELSE a.n

(***************************************************************************)
(* visited.Visited: the set of identity pairs already met.                 *)
(* Record(a, b) is a membership test followed by an insert, for the kinds  *)
(* that carry an identity (pointer, map, slice, interface); the set only   *)
(* grows.  A nil reference has no identity and is never recorded.          *)
(***************************************************************************)
NewVisited == {}

Record(v, a, b) ==
    IF a.k \in {"ptr", "map", "slice", "iface"} /\ ~IsNil(a) /\ ~IsNil(b)
    THEN [seen |-> <<a.p, b.p>> \in v, v |-> v \cup {<<a.p, b.p>>}]
    ELSE [seen |-> FALSE, v |-> v]

(***************************************************************************)
(* helpers/tdutil/sort.go                                                  *)
(***************************************************************************)
cmpRet(less, gt) == IF less THEN -1 ELSE IF gt THEN 1 ELSE 0

\* mutant of cmpFloat: the two NaN tests are dropped
cmpFloatNoNaN(a, b) == cmpRet(FloatLess(a, b), FloatLess(b, a))

cmpFloat(a, b) ==
    IF a.nan THEN -1
    ELSE IF b.nan THEN 1
    ELSE cmpRet(FloatLess(a, b), FloatLess(b, a))

\* what a cmp call gives back: its result r and the visited set it leaves;
\* ovf is set when the calls nest deeper than MaxDepth (r is then void)
Ret(r, v) == [r |-> r, v |-> v, ovf |-> FALSE]
Overflow(v) == [r |-> 0, v |-> v, ovf |-> TRUE]

\* mutant of CycleGuard: a recorded pair is descended into again
CycleGuardOff(rec) == FALSE

\* "if v.Record(a, b) { return 0 }": whether cmp stops on a recorded pair
CycleGuard(rec) == rec.seen

\* the Map case: shorter maps first, then the pointers
cmpMap(a, b) ==
    LET al == VLen(a)
        bl == VLen(b)
        r == cmpRet(al < bl, al > bl)
    IN IF r # 0 THEN r ELSE cmpRet(a.p < b.p, a.p > b.p)

RECURSIVE cmp(_, _, _, _)
RECURSIVE cmpEach(_, _, _, _, _, _)

\* the loops of the Slice and Struct cases over items i..n of as and bs
cmpEach(v, as, bs, i, n, d) ==
    IF i > n THEN Ret(0, v)
    ELSE LET c == cmp(v, as[i], bs[i], d + 1)
         IN IF c.ovf \/ c.r # 0 THEN c
            ELSE cmpEach(c.v, as, bs, i + 1, n, d)

\* the switch on a.Kind(), entered once the pair is recorded
cmpKind(v, a, b, d) ==
    CASE a.k = "bool" ->
            Ret(IF a.n = 1 THEN (IF b.n = 1 THEN 0 ELSE 1)
                ELSE (IF b.n = 1 THEN -1 ELSE 0), v)
      [] a.k = "int" -> Ret(cmpRet(a.n < b.n, a.n > b.n), v)
      [] a.k = "float" -> Ret(cmpFloat(a.f, b.f), v)
      [] a.k = "complex" ->
            LET r == cmpFloat(a.f, b.f)
            IN IF r # 0 THEN Ret(r, v) ELSE Ret(cmpFloat(a.g, b.g), v)
      [] a.k = "string" -> Ret(cmpRet(StrLess(a.s, b.s), StrLess(b.s, a.s)), v)
      [] a.k = "slice" ->
            LET al == VLen(a)
                bl == VLen(b)
                maxl == IF al > bl THEN bl ELSE al
                c == cmpEach(v, Backing(a.p), Backing(b.p), 1, maxl, d)
            IN IF c.ovf \/ c.r # 0 THEN c
               ELSE Ret(cmpRet(al < bl, al > bl), c.v)
      [] a.k = "iface" ->
            IF IsNil(a) THEN (IF IsNil(b) THEN Ret(0, v) ELSE Ret(-1, v))
            ELSE IF IsNil(b) THEN Ret(1, v)
            ELSE cmp(v, Box(a.p), Box(b.p), d + 1)
      [] a.k = "struct" ->
            cmpEach(v, Fields(a.p), Fields(b.p), 1, Len(Fields(a.p)), d)
      [] a.k = "ptr" ->
            IF a.p = b.p THEN Ret(0, v)
            ELSE IF IsNil(a) THEN Ret(-1, v)
            ELSE IF IsNil(b) THEN Ret(1, v)
            ELSE cmp(v, Deref(a.p), Deref(b.p), d + 1)
      [] a.k = "map" -> Ret(cmpMap(a, b), v)
      [] a.k = "func" -> Ret(cmpRet(a.p < b.p, a.p > b.p), v)

\* cmp returns -1 if a < b, 1 if a > b, 0 if a == b; d counts the enclosing
\* cmp calls
cmp(v, a, b, d) ==
    IF ~IsValid(a) THEN (IF ~IsValid(b) THEN Ret(0, v) ELSE Ret(-1, v))
    ELSE IF ~IsValid(b) THEN Ret(1, v)
    ELSE IF a.t # b.t
         THEN LET sat == TypeString(a.t)
                  sbt == TypeString(b.t)
              IN Ret(cmpRet(StrLess(sat, sbt), StrLess(sbt, sat)), v)
    ELSE LET rec == Record(v, a, b)
         IN IF CycleGuard(rec) THEN Ret(0, rec.v)
            ELSE IF d >= MaxDepth THEN Overflow(rec.v)
            ELSE cmpKind(rec.v, a, b, d)

(***************************************************************************)
(* tdDelay: Delay(delayed) and the four methods, each of which starts with *)
(* d.getOperator(), that is d.once.Do(func() { d.operator = d.delayed() }) *)
(* followed by the read of d.operator.  sync.Once.Do is: a load of done;   *)
(* when 0, Lock, a second test of done, the call of f, done = 1, Unlock.   *)
(***************************************************************************)
Threads == 1..NumThreads
Free == 0
NilOp == 0
Methods == {"Match", "String", "TypeBehind", "HandleInvalid"}

\* what a thunk may do when invoked: build an operator, return nil, or call
\* a method of the wrapper it belongs to
Thunks == {"build", "nil", "reenter"}

\* no Delay wrapper exists
NoDelay ==
    /\ delayed = "none" /\ operator = NilOp /\ once = [done |-> FALSE, m |-> Free]
    /\ calls = 0 /\ pc = <<>> /\ meth = <<>> /\ op = <<>> /\ fwd = <<>> /\ ncalls = <<>>

\* func Delay(delayed func() TestDeep) TestDeep, with a non-nil thunk
Delay ==
    /\ delayed \in Thunks
    /\ operator = NilOp
    /\ once = [done |-> FALSE, m |-> Free]
    /\ calls = 0
    /\ pc = [t \in Threads |-> "idle"]
    /\ meth = [t \in Threads |-> "none"]
    /\ op = [t \in Threads |-> NilOp]
    /\ fwd = [t \in Threads |-> {}]
    /\ ncalls = [t \in Threads |-> 0]

\* a thread enters method m of the wrapper: the call of d.getOperator()
Enter(t, m) ==
    /\ pc[t] = "idle" /\ ncalls[t] < MaxCalls
    /\ pc' = [pc EXCEPT ![t] = "once"]
    /\ meth' = [meth EXCEPT ![t] = m]
    /\ ncalls' = [ncalls EXCEPT ![t] = @ + 1]
    /\ UNCHANGED <<delayed, operator, once, calls, op, fwd>>

Match(t) == Enter(t, "Match")
String(t) == Enter(t, "String")
TypeBehind(t) == Enter(t, "TypeBehind")
HandleInvalid(t) == Enter(t, "HandleInvalid")

\* mutant of OnceIsDone: a call of f in progress counts as done
OnceIsDoneOrBusy == once.done \/ once.m # Free

\* once.Do: the load of done, set only after f has returned
OnceIsDone == once.done

\* once.Do, fast path: the thunk is known to have returned
OnceFast(t) ==
    /\ pc[t] = "once"
    /\ pc' = [pc EXCEPT ![t] = IF OnceIsDone THEN "read" ELSE "lock"]
    /\ UNCHANGED <<delayed, operator, once, calls, meth, op, fwd, ncalls>>

\* mutant of OnceMustRun: the thunk runs on every slow path
OnceAlwaysRuns == TRUE

\* once.Do, under the mutex: f runs only if it has not run yet
OnceMustRun == ~once.done

\* once.Do, slow path: Lock, then either call f or Unlock and return
OnceLock(t) ==
    /\ pc[t] = "lock" /\ once.m = Free
    /\ IF OnceMustRun
       THEN /\ once' = [once EXCEPT !.m = t]
            /\ pc' = [pc EXCEPT ![t] = "thunk"]
       ELSE /\ pc' = [pc EXCEPT ![t] = "read"]
            /\ UNCHANGED once
    /\ UNCHANGED <<delayed, operator, calls, meth, op, fwd, ncalls>>

\* the value d.delayed() returns on its n-th invocation
Built(n) == IF delayed = "nil" THEN NilOp ELSE n

\* f: d.operator = d.delayed().  A thunk that calls a method of the wrapper
\* enters once.Do again and waits for the mutex its own thread holds.
Thunk(t) ==
    /\ pc[t] = "thunk"
    /\ calls' = calls + 1
    /\ IF delayed = "reenter"
       THEN /\ pc' = [pc EXCEPT ![t] = "lock"]
            /\ UNCHANGED operator
       ELSE /\ operator' = Built(calls + 1)
            /\ pc' = [pc EXCEPT ![t] = "unlock"]
    /\ UNCHANGED <<delayed, once, meth, op, fwd, ncalls>>

\* mutant of Unlock: the mutex stays with the thread that ran f
UnlockForgotten(t) == t

\* o.m.Unlock(): who holds the mutex after it
Unlock(t) == Free

\* once.Do, after f: done = 1, Unlock
OnceDone(t) ==
    /\ pc[t] = "unlock"
    /\ once' = [done |-> TRUE, m |-> Unlock(t)]
    /\ pc' = [pc EXCEPT ![t] = "read"]
    /\ UNCHANGED <<delayed, operator, calls, meth, op, fwd, ncalls>>

\* getOperator: return d.operator
Read(t) ==
    /\ pc[t] = "read"
    /\ op' = [op EXCEPT ![t] = operator]
    /\ pc' = [pc EXCEPT ![t] = "forward"]
    /\ UNCHANGED <<delayed, operator, once, calls, meth, fwd, ncalls>>

\* op.Match(ctx, got), op.String(), op.TypeBehind(), op.HandleInvalid(): the
\* call on a nil op panics
Forward(t) ==
    /\ pc[t] = "forward"
    /\ IF op[t] = NilOp
       THEN /\ pc' = [pc EXCEPT ![t] = "panic"]
            /\ UNCHANGED fwd
       ELSE /\ pc' = [pc EXCEPT ![t] = "idle"]
            /\ fwd' = [fwd EXCEPT ![t] = @ \cup {op[t]}]
    /\ UNCHANGED <<delayed, operator, once, calls, meth, op, ncalls>>

DoMatch == \E t \in Threads : Match(t) /\ UNCHANGED <<sortVars, opVars, restVars>>
DoString == \E t \in Threads : String(t) /\ UNCHANGED <<sortVars, opVars, restVars>>
DoTypeBehind == \E t \in Threads : TypeBehind(t) /\ UNCHANGED <<sortVars, opVars, restVars>>
DoHandleInvalid == \E t \in Threads : HandleInvalid(t) /\ UNCHANGED <<sortVars, opVars, restVars>>
DoOnceFast == \E t \in Threads : OnceFast(t) /\ UNCHANGED <<sortVars, opVars, restVars>>
DoOnceLock == \E t \in Threads : OnceLock(t) /\ UNCHANGED <<sortVars, opVars, restVars>>
DoThunk == \E t \in Threads : Thunk(t) /\ UNCHANGED <<sortVars, opVars, restVars>>
DoOnceDone == \E t \in Threads : OnceDone(t) /\ UNCHANGED <<sortVars, opVars, restVars>>
DoRead == \E t \in Threads : Read(t) /\ UNCHANGED <<sortVars, opVars, restVars>>
DoForward == \E t \in Threads : Forward(t) /\ UNCHANGED <<sortVars, opVars, restVars>>

DelayNext ==
    \/ DoMatch \/ DoString \/ DoTypeBehind \/ DoHandleInvalid
    \/ DoOnceFast \/ DoOnceLock \/ DoThunk \/ DoOnceDone \/ DoRead \/ DoForward

\* what thread t does next inside a call: the scheduler runs every goroutine
\* that can take a step, and a goroutine waiting for a free mutex gets it
Running(t) ==
    /\ \/ OnceFast(t) \/ OnceLock(t) \/ Thunk(t) \/ OnceDone(t) \/ Read(t) \/ Forward(t)
    /\ UNCHANGED <<sortVars, opVars, restVars>>

(***************************************************************************)
(* Claims on Delay.                                                        *)
(***************************************************************************)
\* thread t has come back from d.getOperator() at least once
GotOperator(t) == pc[t] \in {"forward", "panic"} \/ (pc[t] = "idle" /\ ncalls[t] > 0)

\* C1: the thunk of one Delay wrapper is invoked exactly once over all the
\* calls of its methods: never twice, and never zero times once a call has
\* got its operator.
C1_ThunkInvokedOnce ==
    /\ calls <= 1
    /\ \A t \in Threads : GotOperator(t) => calls = 1

\* C1 witness: every thread has made all its calls, two of them through
\* different methods, and the thunk ran once
C1_Witness ==
    /\ \A t \in Threads : ncalls[t] = MaxCalls /\ pc[t] = "idle"
    /\ meth[1] # meth[2]
    /\ calls = 1

\* C2: every call forwards to the one operator the thunk returned: a thread
\* about to forward holds the value set by the single thunk call, and no two
\* forwarded calls went to different operators.
C2_SameOperator ==
    \A t \in Threads :
        /\ pc[t] = "forward" =>
              /\ once.done /\ calls = 1 /\ op[t] = operator
              /\ delayed = "build" => op[t] # NilOp
        /\ \A u \in Threads : \A x \in fwd[t] : \A y \in fwd[u] : x = y
        /\ fwd[t] \subseteq {operator}

\* C2 witness: the threads raced on the first use (each is in its first
\* call) and all of them are about to forward to the built operator
C2_Witness ==
    /\ delayed = "build"
    /\ \A t \in Threads : ncalls[t] = 1 /\ pc[t] = "forward" /\ op[t] = 1

(***************************************************************************)
(* td_shallow.go: Shallow and tdShallow.Match.                             *)
(* A string value is a view (data pointer p, length n) on bytes in memory: *)
(* back := "foobarfoobar" is stored at TextBase.                           *)
(***************************************************************************)
TextBase == 30
Text == <<102, 111, 111, 98, 97, 114, 102, 111, 111, 98, 97, 114>>
StrAt(p, n) ==
    Val("string", "string", n, p, Fl(0), Fl(0),
        SubSeq(Text, p - TextBase + 1, p - TextBase + n))

\* the kinds Shallow accepts
ShallowKinds == {"chan", "func", "map", "ptr", "slice", "unsafe.Pointer", "string"}

\* ctxerr.BooleanError, a nil *ctxerr.Error, and an error with its fields
NoMsg == <<"", 0>>
BooleanError == [err |-> "BooleanError", Message |-> <<>>, Got |-> NoMsg,
                 Expected |-> NoMsg, collected |-> FALSE]
NilError == [err |-> "nil", Message |-> <<>>, Got |-> NoMsg,
             Expected |-> NoMsg, collected |-> FALSE]
Error(msg, g, x) == [err |-> "Error", Message |-> msg, Got |-> g,
                     Expected |-> x, collected |-> FALSE]

\* ctx.CollectError(err): the error node is taken in the chain of the match
\* and handed back
CollectError(ctx, e) == [e EXCEPT !.collected = TRUE]

\* reflect.Value.Pointer(), and the Data field of a string header
Pointer(v) == v.p
stringPointer(v) == v.p

\* types.RawString(kind.String()) and types.RawString(fmt.Sprintf("0x%x", ptr))
KindString(k) == <<k, 0>>
Hex(ptr) == <<"0x", ptr>>

NoShallow == [built |-> FALSE, arg |-> Invalid, expectedKind |-> "invalid",
              expectedPointer |-> NilPtr, expectedStr |-> Invalid]

\* func Shallow(expectedPtr interface{}) TestDeep: the operator built, or
\* NoShallow when it panics
NewShallow(vptr) ==
    IF vptr.k \in {"chan", "func", "map", "ptr", "slice", "unsafe.Pointer"}
    THEN [built |-> TRUE, arg |-> vptr, expectedKind |-> vptr.k,
          expectedPointer |-> Pointer(vptr), expectedStr |-> Invalid]
    ELSE IF vptr.k = "string"
    THEN [built |-> TRUE, arg |-> vptr, expectedKind |-> vptr.k,
          expectedPointer |-> stringPointer(vptr), expectedStr |-> vptr]
    ELSE NoShallow

\* mutant of Mismatch: in boolean mode the mismatch is lost
MismatchLost(ctx, e) == IF ctx.BooleanError THEN NilError ELSE CollectError(ctx, e)

\* "if ctx.BooleanError { return ctxerr.BooleanError }
\*  return ctx.CollectError(&ctxerr.Error{...})"
Mismatch(ctx, e) == IF ctx.BooleanError THEN BooleanError ELSE CollectError(ctx, e)

\* mutant of ShallowMatch: only the kinds are compared
ShallowMatchKindOnly(s, ctx, got) ==
    IF got.k # s.expectedKind
    THEN Mismatch(ctx, Error(<<"", "bad kind">>, KindString(got.k),
                             KindString(s.expectedKind)))
    ELSE NilError

\* func (s *tdShallow) Match(ctx ctxerr.Context, got reflect.Value) *ctxerr.Error
ShallowMatch(s, ctx, got) ==
    IF got.k # s.expectedKind
    THEN Mismatch(ctx, Error(<<"", "bad kind">>, KindString(got.k),
                             KindString(s.expectedKind)))
    ELSE LET ptr == IF s.expectedKind = "string" THEN stringPointer(got)
                    ELSE Pointer(got)
         IN IF ptr # s.expectedPointer
            THEN Mismatch(ctx, Error(<<s.expectedKind, "pointer mismatch">>,
                                     Hex(ptr), Hex(s.expectedPointer)))
            ELSE NilError

(***************************************************************************)
(* td/td_tag.go: Tag.  util.CheckTag accepts a name that is not empty and  *)
(* made of letters, "_" and, after the first character, digits.            *)
(***************************************************************************)
TagChars == {"a", "1", "-"}
TagNames == UNION {[1..n -> TagChars] : n \in 0..MaxTag}

CheckTag(name) ==
    IF name = <<>> THEN "A tag cannot be empty"
    ELSE IF \E i \in DOMAIN name :
               ~(name[i] = "a" \/ name[i] = "_" \/ (i > 1 /\ name[i] = "1"))
         THEN "Invalid tag"
         ELSE "nil"

\* what Tag wraps: a literal value (untyped nil included) or an operator
TagArgs == {[td |-> FALSE, v |-> Invalid], [td |-> TRUE, v |-> PtrV("*td.tdShallow", 1)]}

NoTag == [built |-> FALSE, tag |-> <<>>, isTestDeeper |-> FALSE, expectedValue |-> Invalid]

\* mutant of NewTag: the name is not checked
NewTagUnchecked(name, expectedValue) ==
    [built |-> TRUE, tag |-> name, isTestDeeper |-> expectedValue.td,
     expectedValue |-> expectedValue.v]

\* func Tag(tag string, expectedValue interface{}) TestDeep: the operator
\* built, or NoTag when it panics
NewTag(name, expectedValue) ==
    IF CheckTag(name) # "nil" THEN NoTag
    ELSE [built |-> TRUE, tag |-> name, isTestDeeper |-> expectedValue.td,
          expectedValue |-> expectedValue.v]

\* func Delay(delayed func() TestDeep) TestDeep: the thunk kept by the wrapper
\* built, or "none" when it panics on a nil thunk
NewDelay(thunk) == IF thunk = "nilfunc" THEN "none" ELSE thunk

(***************************************************************************)
(* The operators are built and matched one call at a time.                 *)
(***************************************************************************)
\* the values given to Shallow and to Match
OpValues ==
    {Invalid, IntV(1), PtrV("*int", 1), PtrV("*int", 2),
     StrAt(30, 6), StrAt(36, 6), StrAt(30, 1),
     SliceV("[]int", 11, 2), SliceV("[]int", 11, 3),
     MapV("map[int]int", 15), FuncV(23), ChanV(24), UnsafePtrV(1)}

\* a call and its outcome: the constructor or method, whether it panicked,
\* ctx.BooleanError, the value and the name or thunk given, the error returned
Returned(o, panicked, b, got, name, e) ==
    [op |-> o, panic |-> panicked, boolean |-> b, arg |-> got, name |-> name, e |-> e]

NoOps ==
    /\ shallow = NoShallow
    /\ tag = NoTag
    /\ ret = Returned("none", FALSE, FALSE, Invalid, <<>>, NilError)

\* a call of Shallow(e): a panic leaves the caller without a new operator
CallShallow(e) ==
    LET s == NewShallow(e)
    IN /\ shallow' = IF s.built THEN s ELSE shallow
       /\ ret' = Returned("Shallow", ~s.built, FALSE, e, <<>>, NilError)
       /\ UNCHANGED <<tag, delayed>>

\* a call of Match on the tdShallow built, in the mode given by ctx.BooleanError
CallShallowMatch(got, b) ==
    /\ shallow.built
    /\ ret' = Returned("Shallow.Match", FALSE, b, got, <<>>,
                       ShallowMatch(shallow, [BooleanError |-> b], got))
    /\ UNCHANGED <<shallow, tag, delayed>>

\* a call of Tag(name, v)
CallTag(name, v) ==
    LET t == NewTag(name, v)
    IN /\ tag' = IF t.built THEN t ELSE tag
       /\ ret' = Returned("Tag", ~t.built, FALSE, v.v, name, NilError)
       /\ UNCHANGED <<shallow, delayed>>

\* a call of Delay(thunk)
CallDelay(thunk) ==
    LET d == NewDelay(thunk)
    IN /\ delayed' = IF d # "none" THEN d ELSE delayed
       /\ ret' = Returned("Delay", d = "none", FALSE, Invalid, <<thunk>>, NilError)
       /\ UNCHANGED <<shallow, tag>>

\* a call of Match, String, TypeBehind or HandleInvalid on the tdTag or the
\* tdDelay built: only an operator a constructor returned can be called
CallBuilt(o) ==
    /\ \/ o = "Tag.Match" /\ tag.built
       \/ o = "Delay.Match" /\ delayed # "none"
    /\ ret' = Returned(o, FALSE, FALSE, Invalid, <<>>, NilError)
    /\ UNCHANGED <<shallow, tag, delayed>>

opFrame == <<sortVars, operator, once, calls, pc, meth, op, fwd, ncalls, restVars>>

DoShallow == (\E e \in OpValues : CallShallow(e)) /\ UNCHANGED opFrame
DoShallowMatch ==
    (\E got \in OpValues : \E b \in BOOLEAN : CallShallowMatch(got, b)) /\ UNCHANGED opFrame
DoTag == (\E name \in TagNames : \E v \in TagArgs : CallTag(name, v)) /\ UNCHANGED opFrame
DoDelay == (\E thunk \in Thunks \cup {"nilfunc"} : CallDelay(thunk)) /\ UNCHANGED opFrame
DoBuilt == (\E o \in {"Tag.Match", "Delay.Match"} : CallBuilt(o)) /\ UNCHANGED opFrame

OpNext == DoShallow \/ DoShallowMatch \/ DoTag \/ DoDelay \/ DoBuilt

C9_BooleanSameVerdict ==
    ret.op = "Shallow.Match" =>
        /\ ret.boolean =>
              /\ (ret.e.err = "nil")
                    <=> (ShallowMatch(shallow, [BooleanError |-> FALSE], ret.arg).err = "nil")
              /\ ret.e.err # "nil" => ret.e = BooleanError
        /\ (~ret.boolean /\ ret.e.err # "nil") => (ret.e.err = "Error" /\ ret.e.collected)

\* C9 witness: a pointer mismatch met in boolean mode gave the sentinel
C9_Witness ==
    /\ ret.op = "Shallow.Match" /\ ret.boolean /\ ret.e = BooleanError
    /\ ret.arg.k = shallow.arg.k /\ ret.arg.s = shallow.arg.s /\ ret.arg.k = "string"

\* C10: invalid constructor arguments fail in the constructor: Shallow of an
\* unsupported kind, Tag of a name the tag check rejects and Delay of a nil
\* thunk panic and return no operator, so every operator that exists, and
\* every operator Match is called on, was built from valid arguments.
C10_FailsAtConstruction ==
    /\ shallow.built => shallow.arg.k \in ShallowKinds
    /\ tag.built => CheckTag(tag.tag) = "nil"
    /\ delayed # "nilfunc"
    /\ (ret.op = "Shallow" /\ ret.arg.k \notin ShallowKinds)
          => (ret.panic /\ ~(shallow.built /\ shallow.arg = ret.arg))
    /\ (ret.op = "Tag" /\ CheckTag(ret.name) # "nil")
          => (ret.panic /\ ~(tag.built /\ tag.tag = ret.name))
    /\ (ret.op = "Delay" /\ ret.name = <<"nilfunc">>) => ret.panic
    /\ ret.op = "Shallow.Match" => (shallow.built /\ shallow.expectedKind \in ShallowKinds)
    /\ ret.op = "Tag.Match" => (tag.built /\ tag.tag # <<>>)
    /\ ret.op = "Delay.Match" => delayed \in Thunks
    /\ ret.op \in {"Shallow.Match", "Tag.Match", "Delay.Match"} => ~ret.panic

\* C10 witness: Shallow of an int panicked and left the caller with the
\* operator it had
C10_Witness ==
    /\ ret.op = "Shallow" /\ ret.panic /\ ret.arg.k = "int"
    /\ shallow.built /\ tag.built /\ delayed \in Thunks

(***************************************************************************)
(* The values a slice to sort is drawn from, one family per slice.         *)
(***************************************************************************)
Floats == {NaN, Fl(-1), Fl(1)}

Numbers == {Invalid, BoolV(TRUE), IntV(1)} \cup {FloatV(f) : f \in Floats}
Complexes == {ComplexV(Fl(0), Fl(0)), ComplexV(Fl(0), Fl(1)), ComplexV(Fl(0), NaN),
              ComplexV(Fl(1), Fl(0)), ComplexV(NaN, Fl(0)), ComplexV(NaN, NaN)}
Pointers == {PtrV("*int", p) : p \in {NilPtr, 1, 2, 3}}
CyclicPointers == {PtrV("main.P", 4), PtrV("main.P", 5), PtrV("main.P", 6),
                   PtrV("*interface {}", 10)}
CyclicStructs == {PtrV("*main.N", p) : p \in {NilPtr, 7, 8, 9}}
Slices == {SliceV("[]int", NilPtr, 0), SliceV("[]int", 11, 2), SliceV("[]int", 11, 3),
           SliceV("[]int", 12, 3), SliceV("main.S", 13, 1), SliceV("main.S", 14, 2)}
Maps == {MapV("map[int]int", p) : p \in {NilPtr, 15, 16, 17, 18}}
Boxed == {IfaceV(NilPtr), IfaceV(20), IfaceV(21), IfaceV(22)}

NumberFamilies == {Numbers, Complexes}
RefFamilies == {Pointers, CyclicPointers, CyclicStructs, Slices, Maps, Boxed}

\* SortableValues(s): sort.Sort calls neither Less nor Swap on fewer than two
\* values, so the slices start at two
SortableValues ==
    /\ \/ \E U \in NumberFamilies : \E n \in 2..MaxLen : Slice \in [1..n -> U]
       \/ \E U \in RefFamilies : \E n \in 2..MaxRefs : Slice \in [1..n -> U]
    /\ Visited = NewVisited
    /\ last = [op |-> "SortableValues", i |-> 0, j |-> 0, r |-> 0, ovf |-> FALSE]

\* func (v *rValues) Less(i, j int) bool
Less(i, j) ==
    LET c == cmp(Visited, Slice[i], Slice[j], 0)
    IN /\ Visited' = c.v
       /\ last' = [op |-> "Less", i |-> i, j |-> j, r |-> c.r, ovf |-> c.ovf]
       /\ UNCHANGED Slice

\* func (v *rValues) Swap(i, j int)
Swap(i, j) ==
    /\ Slice' = [Slice EXCEPT ![i] = Slice[j], ![j] = Slice[i]]
    /\ last' = [op |-> "Swap", i |-> 0, j |-> 0, r |-> 0, ovf |-> FALSE]
    /\ UNCHANGED Visited

DoLess == (\E i, j \in DOMAIN Slice : Less(i, j)) /\ UNCHANGED <<delayVars, opVars, restVars>>
DoSwap == (\E i, j \in DOMAIN Slice : Swap(i, j)) /\ UNCHANGED <<delayVars, opVars, restVars>>

SortNext == DoLess \/ DoSwap

(***************************************************************************)
(* td/td_tag.go: the methods of tdTag.  The operator a Tag wraps is a      *)
(* *tdShallow stored at the address the TestDeep value holds.              *)
(***************************************************************************)
\* the operators kept in memory: Shallow(&a) at 1, Shallow("foobar") at 25
TestDeepAt(p) ==
    CASE p = 1 -> NewShallow(PtrV("*int", 1))
      [] p = 25 -> NewShallow(StrAt(TextBase, 6))

\* expected implements TestDeep
IsTestDeeper(v) == v.t = "*td.tdShallow"

\* what a string built by fmt or util.ToString reads: a head, a number, a text
Str(head, num, text) == [head |-> head, num |-> num, text |-> text]

\* util.ToString(reflect.Value): "nil" for an untyped nil, the digits of an
\* integer, the quoted text of a string, "(type) 0xaddress" for a pointer
ValueToString(v) ==
    CASE ~IsValid(v) -> Str("nil", 0, <<>>)
      [] v.k \in {"bool", "int"} -> Str("", v.n, <<>>)
      [] v.k = "string" -> Str("\"", 0, v.s)
      [] OTHER -> Str(v.t, v.p, <<>>)

\* how a value reads in the Got and Expected fields of an error
RawValue(v) == <<v.t, IF v.k \in {"bool", "int", "string"} THEN v.n ELSE v.p>>

\* func (s *tdShallow) String() string
ShallowString(s) == Str(s.expectedKind, s.expectedPointer, <<>>)

\* Base.TypeBehind(): an operator that does not know the type behind it
ShallowTypeBehind(s) == "nil"

\* deepValueEqual(ctx, got, expected): an operator on the expected side is
\* given the match; otherwise an invalid value matches only an invalid one,
\* the types must be the same, numbers and strings are compared by value,
\* pointers by identity and then by what they point to
RECURSIVE deepValueEqual(_, _, _)
deepValueEqual(ctx, got, expected) ==
    IF IsTestDeeper(expected)
    THEN ShallowMatch(TestDeepAt(expected.p), ctx, got)
    ELSE IF ~IsValid(got) \/ ~IsValid(expected)
    THEN IF IsValid(got) = IsValid(expected) THEN NilError
         ELSE Mismatch(ctx, Error(<<"", "values differ">>, RawValue(got),
                                  RawValue(expected)))
    ELSE IF got.t # expected.t
    THEN Mismatch(ctx, Error(<<"", "type mismatch">>, <<got.t, 0>>, <<expected.t, 0>>))
    ELSE CASE got.k \in {"bool", "int"} ->
                IF got.n = expected.n THEN NilError
                ELSE Mismatch(ctx, Error(<<"", "values differ">>, RawValue(got),
                                         RawValue(expected)))
           [] got.k = "string" ->
                IF got.s = expected.s THEN NilError
                ELSE Mismatch(ctx, Error(<<"", "values differ">>, RawValue(got),
                                         RawValue(expected)))
           [] got.k = "ptr" ->
                IF got.p = expected.p THEN NilError
                ELSE IF IsNil(got) \/ IsNil(expected)
                THEN Mismatch(ctx, Error(<<"", "nil pointer">>, RawValue(got),
                                         RawValue(expected)))
                ELSE deepValueEqual(ctx, Deref(got.p), Deref(expected.p))
           [] OTHER ->
                IF IsNil(got) = IsNil(expected) THEN NilError
                ELSE Mismatch(ctx, Error(<<"", "nil">>, RawValue(got),
                                         RawValue(expected)))

\* func (t *tdTag) Match(ctx ctxerr.Context, got reflect.Value) *ctxerr.Error
TagMatch(t, ctx, got) == deepValueEqual(ctx, got, t.expectedValue)

\* mutant of TagString: the description carries the name
TagStringNamed(t) == Str("Tag", Len(t.tag), <<>>)

\* func (t *tdTag) String() string
TagString(t) ==
    IF t.isTestDeeper THEN ShallowString(TestDeepAt(t.expectedValue.p))
    ELSE ValueToString(t.expectedValue)

\* func (t *tdTag) TypeBehind() reflect.Type: the name of the type, or "nil"
TagTypeBehind(t) ==
    IF t.isTestDeeper THEN ShallowTypeBehind(TestDeepAt(t.expectedValue.p))
    ELSE IF IsValid(t.expectedValue) THEN t.expectedValue.t
    ELSE "nil"

\* what Tag is given here: literals (the untyped nil, an int, a pointer, a
\* string) and the operators in memory
TagValues ==
    TagArgs \cup {[td |-> FALSE, v |-> IntV(1)], [td |-> FALSE, v |-> PtrV("*int", 1)],
                  [td |-> FALSE, v |-> StrAt(TextBase, 6)],
                  [td |-> TRUE, v |-> PtrV("*td.tdShallow", 25)]}

NoTagRet == [str |-> Str("", 0, <<>>), type |-> ""]

NoTagCalls == tagret = NoTagRet

\* Tag(name, v), the caller keeping what it returned
TagBuild(name, v) == CallTag(name, v) /\ tagret' = NoTagRet

\* a call of Match on the tdTag built
CallTagMatch(got, b) ==
    /\ tag.built
    /\ ret' = Returned("Tag.Match", FALSE, b, got, <<>>,
                       TagMatch(tag, [BooleanError |-> b], got))
    /\ UNCHANGED <<shallow, tag, delayed, tagret>>

\* a call of String on the tdTag built
CallTagString ==
    /\ tag.built
    /\ ret' = Returned("Tag.String", FALSE, FALSE, Invalid, <<>>, NilError)
    /\ tagret' = [tagret EXCEPT !.str = TagString(tag)]
    /\ UNCHANGED <<shallow, tag, delayed>>

\* a call of TypeBehind on the tdTag built
CallTagTypeBehind ==
    /\ tag.built
    /\ ret' = Returned("Tag.TypeBehind", FALSE, FALSE, Invalid, <<>>, NilError)
    /\ tagret' = [tagret EXCEPT !.type = TagTypeBehind(tag)]
    /\ UNCHANGED <<shallow, tag, delayed>>

tagFrame == <<sortVars, operator, once, calls, pc, meth, op, fwd, ncalls, chain, buf, fp, sub>>

DoTagBuild ==
    (\E name \in TagNames : \E v \in TagValues : TagBuild(name, v)) /\ UNCHANGED tagFrame
DoTagMatch ==
    (\E got \in OpValues : \E b \in BOOLEAN : CallTagMatch(got, b)) /\ UNCHANGED tagFrame
DoTagString == CallTagString /\ UNCHANGED tagFrame
DoTagTypeBehind == CallTagTypeBehind /\ UNCHANGED tagFrame

TagNext == DoTagBuild \/ DoTagMatch \/ DoTagString \/ DoTagTypeBehind

(***************************************************************************)
(* Claims on Tag.                                                          *)
(***************************************************************************)
\* what the tdTag built wraps, as it was given to Tag
TagWrapped == [td |-> tag.isTestDeeper, v |-> tag.expectedValue]

\* the same value under every name the tag check accepts
SameUnderAnyName(f(_), r) ==
    \A n2 \in TagNames :
        LET t2 == NewTag(n2, TagWrapped) IN t2.built => f(t2) = r

\* C11: the name given to Tag has no effect: Match, String and TypeBehind of
\* Tag(n, v) give what they give under any other valid name, and what v
\* itself gives: the Match, String and TypeBehind of v when v is an
\* operator, the comparison with v, its rendering and its type when v is a
\* literal, no type when v is the untyped nil.
C11_TagNameIrrelevant ==
    LET v == tag.expectedValue
        ctx == [BooleanError |-> ret.boolean]
        Matched(t) == TagMatch(t, ctx, ret.arg)
    IN /\ ret.op = "Tag.Match" =>
             /\ SameUnderAnyName(Matched, ret.e)
             /\ tag.isTestDeeper => ret.e = ShallowMatch(TestDeepAt(v.p), ctx, ret.arg)
             /\ ~tag.isTestDeeper =>
                   (ret.e.err = "nil") <=>
                       \/ ~IsValid(ret.arg) /\ ~IsValid(v)
                       \/ /\ IsValid(ret.arg) /\ IsValid(v) /\ ret.arg.t = v.t
                          /\ \/ ret.arg.k = "int" /\ ret.arg.n = v.n
                             \/ ret.arg.k = "string" /\ ret.arg.s = v.s
                             \/ ret.arg.k = "ptr" /\ Deref(ret.arg.p) = Deref(v.p)
       /\ ret.op = "Tag.String" =>
             /\ SameUnderAnyName(TagString, tagret.str)
             /\ tagret.str = IF tag.isTestDeeper THEN ShallowString(TestDeepAt(v.p))
                             ELSE ValueToString(v)
       /\ ret.op = "Tag.TypeBehind" =>
             /\ SameUnderAnyName(TagTypeBehind, tagret.type)
             /\ tag.isTestDeeper => tagret.type = ShallowTypeBehind(TestDeepAt(v.p))
             /\ ~tag.isTestDeeper => tagret.type = (IF v = Invalid THEN "nil" ELSE v.t)

\* C11 witness: a pointer to an equal int matched the literal wrapped under
\* a two-character name, after String and TypeBehind were asked
C11_Witness ==
    /\ ret.op = "Tag.Match" /\ ret.e.err = "nil"
    /\ Len(tag.tag) = 2 /\ ~tag.isTestDeeper
    /\ tag.expectedValue = PtrV("*int", 1) /\ ret.arg = PtrV("*int", 2)
    /\ tagret.type = "*int" /\ tagret.str = Str("*int", 1, <<>>)

(***************************************************************************)
(* ctxerr: Error.Append.  An *Error and the errors its Next fields lead to *)
(* are a sequence, in the order of the links; a nil *Error is <<>>.        *)
(* Origin is such a sequence too.  What is written to the buffer is a      *)
(* sequence of tokens: the part written, the node it is written for (its   *)
(* position in the chain, below the positions of the nodes it originates   *)
(* from), the number of tabs of the prefix in force, the text and, for a   *)
(* location, its line.                                                     *)
(***************************************************************************)
\* location.Location: IsInitialized() is File # ""
Location(file, line, behindCmp) == [File |-> file, Line |-> line, BehindCmp |-> behindCmp]
NoLocation == Location("", 0, FALSE)
IsInitialized(l) == l.File # ""
Locations == {NoLocation, Location("a.go", 1, FALSE), Location("a.go", 2, FALSE),
              Location("a.go", 1, TRUE)}

\* Error.Message, cut where a "%%" stands
Messages == {<<"values differ">>, <<"comparing ", "%%", ", bad kind">>}

ErrorNode(kind, msg, summary, loc, origin) ==
    [kind |-> kind, Message |-> msg, Summary |-> summary, Location |-> loc,
     Origin |-> origin]

\* var BooleanError = &Error{}
BooleanErrorNode == ErrorNode("BooleanError", <<>>, FALSE, NoLocation, <<>>)

\* var ErrTooManyErrors = &Error{Message: "Too many errors ..."}
ErrTooManyErrors ==
    ErrorNode("ErrTooManyErrors", <<"Too many errors (use TESTDEEP_MAX_ERRORS=-1 to see all)">>,
              FALSE, NoLocation, <<>>)

Tok(part, id, lvl, text) == [part |-> part, id |-> id, lvl |-> lvl, text |-> text, n |-> 0]

\* writeEolPrefix(): "\n" and the prefix
writeEolPrefix(id, lvl) == <<Tok("eol", id, lvl, "\n")>>

\* strings.Index(e.Message, "%%"): 0 when there is none
MarkPos(m) ==
    IF \E i \in DOMAIN m : m[i] = "%%"
    THEN CHOOSE i \in DOMAIN m : m[i] = "%%" /\ \A j \in 1..(i - 1) : m[j] # "%%"
    ELSE 0

\* the title: the message, the path in the place of the first "%%", or
\* before the message and ": " when there is none
Title(e, id, lvl) ==
    LET m == e.Message
        pos == MarkPos(m)
        text(from, to) == [i \in 1..(to - from + 1) |-> Tok("msg", id, lvl, m[from + i - 1])]
        path == <<Tok("path", id, lvl, "DATA")>>
    IN <<Tok("TitleOn", id, lvl, "")>>
       \o (IF pos > 0 THEN text(1, pos - 1) \o path \o text(pos + 1, Len(m))
           ELSE path \o <<Tok("msg", id, lvl, ": ")>> \o text(1, Len(m)))
       \o <<Tok("TitleOff", id, lvl, "")>>

\* the summary, or the got and expected lines
Body(e, id, lvl) ==
    IF e.Summary
    THEN <<Tok("nl", id, lvl, "\n"), Tok("summary", id, lvl + 1, "")>>
    ELSE writeEolPrefix(id, lvl)
         \o <<Tok("BadOnBold", id, lvl, ""), Tok("got:", id, lvl, "\t     got: "),
              Tok("BadOn", id, lvl, ""), Tok("got", id, lvl, ""), Tok("BadOff", id, lvl, "")>>
         \o writeEolPrefix(id, lvl)
         \o <<Tok("OKOnBold", id, lvl, ""), Tok("expected:", id, lvl, "\texpected: "),
              Tok("OKOn", id, lvl, ""), Tok("expected", id, lvl, ""),
              Tok("OKOff", id, lvl, "")>>

\* mutant of LocationShown: the location of the next error is not looked at
LocationShownAlways(e, next) ==
    IsInitialized(e.Location) /\ ~e.Location.BehindCmp

\* "e.Location.IsInitialized() && !e.Location.BehindCmp &&
\*  (e.Next == nil || e.Next.Location != e.Location)"
LocationShown(e, next) ==
    /\ IsInitialized(e.Location)
    /\ ~e.Location.BehindCmp
    /\ (next = <<>> \/ next[1].Location # e.Location)

\* mutant of Rendered: the location is written before the origin
RenderedLocationFirst(title, body, origin, loc, next) ==
    title \o body \o loc \o origin \o next

\* the order Append writes the parts of an error in
Rendered(title, body, origin, loc, next) ==
    title \o body \o origin \o loc \o next

\* func (e *Error) Append(buf *bytes.Buffer, prefix string), e being es[k]
\* and lvl the number of tabs of prefix: what is written to buf
RECURSIVE ErrorAppend(_, _, _, _)
ErrorAppend(es, k, lvl, pid) ==
    LET e == es[k]
        id == pid \o <<k>>
        next == IF k < Len(es) THEN <<es[k + 1]>> ELSE <<>>
        pre == IF lvl > 0 THEN <<Tok("prefix", id, lvl, "")>> ELSE <<>>
    IN IF e.kind = "BooleanError" THEN <<>>
       ELSE IF e.kind = "ErrTooManyErrors"
       THEN pre \o <<Tok("TitleOn", id, lvl, ""), Tok("msg", id, lvl, e.Message[1]),
                     Tok("TitleOff", id, lvl, "")>>
       ELSE Rendered(
                pre \o Title(e, id, lvl),
                Body(e, id, lvl),
                IF e.Origin # <<>>
                THEN writeEolPrefix(id, lvl)
                     \o <<Tok("origin:", id, lvl, "Originates from following error:\n")>>
                     \o ErrorAppend(e.Origin, 1, lvl + 1, id)
                ELSE <<>>,
                IF LocationShown(e, next)
                THEN writeEolPrefix(id, lvl)
                     \o <<Tok("location", id, lvl, "[under TestDeep operator "),
                          [Tok("location", id, lvl, e.Location.File)
                              EXCEPT !.n = e.Location.Line],
                          Tok("location", id, lvl, "]")>>
                ELSE <<>>,
                IF next # <<>>
                THEN <<Tok("next", id, lvl, "\n")>> \o ErrorAppend(es, k + 1, lvl, pid)
                ELSE <<>>)

\* the errors Append is given: errors with or without a summary, a "%%" in
\* the message, a location, errors they originate from
Leaves ==
    {ErrorNode("Error", IF s THEN <<"comparing ", "%%", ", bad kind">>
                        ELSE <<"values differ">>, s, l, <<>>) :
        s \in BOOLEAN, l \in Locations}

Origins ==
    LET la == Location("a.go", 1, FALSE)
        o1 == ErrorNode("Error", <<"comparing ", "%%", ", bad kind">>, FALSE, la, <<>>)
        o2 == ErrorNode("Error", <<"values differ">>, TRUE, la, <<>>)
        o3 == ErrorNode("Error", <<"%%", " and ", "%%">>, FALSE, la, <<o1>>)
    IN {<<>>, <<o1>>, <<o2, o3>>, <<o1, ErrTooManyErrors>>}

\* every error may have a location; two of them may originate from others
Nodes ==
    Leaves \cup {[l EXCEPT !.Origin = o] :
                    l \in {x \in Leaves : x.Location = Location("a.go", 2, FALSE)},
                    o \in Origins \ {<<>>}}

\* the chains a match returns: up to MaxChain errors, ErrTooManyErrors after
\* the last one when the error budget was reached; or BooleanError alone
Chains ==
    LET errs == UNION {[1..n -> Nodes] : n \in 1..MaxChain}
    IN errs \cup {Append(es, ErrTooManyErrors) : es \in errs}
            \cup {<<BooleanErrorNode>>, <<ErrTooManyErrors>>}

NoBuf == [op |-> "none", prefix |-> 0, out |-> <<>>]

NoAppend == chain = <<>> /\ buf = NoBuf

\* a match has returned the chain
Returns == chain \in Chains /\ buf = NoBuf

\* func (e *Error) Error() string
ErrorString ==
    /\ buf' = [op |-> "Error", prefix |-> 0, out |-> ErrorAppend(chain, 1, 0, <<>>)]
    /\ UNCHANGED chain

\* e.Append(&buf, "\t"), ... on an empty buffer
CallAppend(lvl) ==
    /\ buf' = [op |-> "Append", prefix |-> lvl, out |-> ErrorAppend(chain, 1, lvl, <<>>)]
    /\ UNCHANGED chain

errFrame == <<sortVars, delayVars, opVars, tagret, fp, sub>>

DoErrorString == ErrorString /\ UNCHANGED errFrame
DoAppend == (\E lvl \in 1..MaxPrefix : CallAppend(lvl)) /\ UNCHANGED errFrame

AppendNext == DoErrorString \/ DoAppend

(***************************************************************************)
(* Claims on Error.Append.                                                 *)
(***************************************************************************)
\* the place of a part in the rendering of its error; -1 for a line break
PartRank(part) ==
    CASE part = "prefix" -> 0
      [] part \in {"TitleOn", "msg", "path", "TitleOff"} -> 1
      [] part \in {"nl", "summary", "BadOnBold", "got:", "BadOn", "got", "BadOff",
                   "OKOnBold", "expected:", "OKOn", "expected", "OKOff"} -> 2
      [] part = "origin:" -> 3
      [] part = "location" -> 4
      [] part = "next" -> 5
      [] OTHER -> -1

\* the error a token was written for, found from the chain handed to Append
RECURSIVE NodeAt(_, _)
NodeAt(es, id) ==
    IF Len(id) = 1 THEN es[id[1]] ELSE NodeAt(es[id[1]].Origin, Tail(id))

\* b is one of the errors a originates from, directly or not
ProperPrefix(a, b) == Len(a) < Len(b) /\ SubSeq(b, 1, Len(a)) = a

\* a is, or lies under, an earlier sibling of b or of an error above b
SiblingBefore(a, b) ==
    \E i \in 1..Len(a) :
        i <= Len(b) /\ a[i] < b[i] /\ SubSeq(a, 1, i - 1) = SubSeq(b, 1, i - 1)

Written(id, part) == \E i \in DOMAIN buf.out : buf.out[i].id = id /\ buf.out[i].part = part

\* C12: Append writes the parts of every error in one order: the message
\* with the path in it, then either the summary or got and expected (never
\* both), then every error of the origin, one tab deeper and before anything
\* else of the error, then the location, then the next error, after which
\* nothing of the error is written; every error of the chain is written.
C12_AppendOrder ==
    buf.op # "none" =>
        LET out == buf.out
            rank(i) == PartRank(out[i].part)
        IN /\ \A i, j \in DOMAIN out :
                  i < j =>
                      LET x == out[i].id
                          y == out[j].id
                      IN IF x = y
                         THEN rank(i) = -1 \/ rank(j) = -1 \/ rank(i) <= rank(j)
                         ELSE \/ SiblingBefore(x, y)
                              \/ ProperPrefix(x, y) /\ rank(i) <= 3
                              \/ ProperPrefix(y, x) /\ (rank(j) = -1 \/ rank(j) >= 4)
           /\ \A i \in DOMAIN out :
                  LET id == out[i].id
                      e == NodeAt(chain, id)
                  IN /\ out[i].lvl = buf.prefix + Len(id) - 1
                                     + (IF out[i].part = "summary" THEN 1 ELSE 0)
                     /\ e.kind = "Error" =>
                           /\ Written(id, "summary") = e.Summary
                           /\ Written(id, "got") = ~e.Summary
                           /\ Written(id, "expected") = ~e.Summary
                           /\ Cardinality({j \in DOMAIN out :
                                              out[j].id = id /\ out[j].part = "path"}) = 1
                           /\ \A m \in DOMAIN e.Origin : Written(id \o <<m>>, "msg")
           /\ chain # <<BooleanErrorNode>> => \A k \in DOMAIN chain : Written(<<k>>, "msg")

\* C12 witness: Append with a prefix wrote two errors, the first with its
\* location and the two errors it originates from, the second with a summary
C12_Witness ==
    /\ buf.op = "Append" /\ Len(chain) = 2
    /\ Len(chain[1].Origin) = 2 /\ Written(<<1>>, "location") /\ Written(<<1, 2, 1>>, "got")
    /\ chain[2].Summary /\ Written(<<2>>, "summary")

\* BooleanError writes nothing; ErrTooManyErrors writes its message alone,
\* and nothing is written after it
SentinelsRendered ==
    /\ chain = <<BooleanErrorNode>> => buf.out = <<>>
    /\ \A k \in DOMAIN chain :
           chain[k].kind = "ErrTooManyErrors" =>
               LET own == {i \in DOMAIN buf.out : buf.out[i].id = <<k>>}
               IN /\ {buf.out[i].part : i \in own} \subseteq {"prefix", "TitleOn", "msg", "TitleOff"}
                  /\ \E i \in own : buf.out[i].text = ErrTooManyErrors.Message[1]
                  /\ Len(buf.out) \in own

\* C16 as stated: the location line of an error of the chain is written
\* whenever its location is initialized and not behind a Cmp function,
\* whatever the location of the next error; BooleanError writes nothing and
\* ErrTooManyErrors its message alone, ending the chain.
C16_LocationAlwaysShown ==
    buf.op # "none" =>
        /\ \A k \in DOMAIN chain :
               chain[k].kind = "Error" =>
                   Written(<<k>>, "location")
                       = (IsInitialized(chain[k].Location) /\ ~chain[k].Location.BehindCmp)
        /\ SentinelsRendered

\* C16, amended: the location line of an error of the chain is written
\* exactly when its location is initialized, not behind a Cmp function, and
\* the error is the last one or the next error has another location: of
\* consecutive errors raised under one operator only the last shows the
\* location.  BooleanError writes nothing and ErrTooManyErrors its message
\* alone, ending the chain.
C16_LocationShownOncePerRun ==
    buf.op # "none" =>
        /\ \A k \in DOMAIN chain :
               chain[k].kind = "Error" =>
                   Written(<<k>>, "location")
                       = /\ IsInitialized(chain[k].Location)
                         /\ ~chain[k].Location.BehindCmp
                         /\ (k = Len(chain) \/ chain[k + 1].Location # chain[k].Location)
        /\ SentinelsRendered

\* C16 witness: two errors raised under the same operator were written, the
\* location under the second only, and ErrTooManyErrors after them
C16_Witness ==
    /\ buf.op = "Error" /\ Len(chain) = 3 /\ chain[3] = ErrTooManyErrors
    /\ IsInitialized(chain[1].Location) /\ ~chain[1].Location.BehindCmp
    /\ chain[2].Location = chain[1].Location
    /\ ~Written(<<1>>, "location") /\ Written(<<2>>, "location")
    /\ Written(<<3>>, "msg")

(***************************************************************************)
(* SubSetOf: the subset-containment operator.  The items compared are      *)
(* ints; an expected item is a value or an operator on ints.               *)
(***************************************************************************)
\* an expected item: the value n, Between(a, b), Gt(n)
Lit(n) == [op |-> "value", a |-> n, b |-> n]
Between(a, b) == [op |-> "Between", a |-> a, b |-> b]
Gt(n) == [op |-> "Gt", a |-> n, b |-> n]

\* deepValueEqualOK(got, expected) on an int
ItemMatches(c, x) ==
    CASE c.op = "value" -> x = c.a
      [] c.op = "Between" -> c.a <= x /\ x <= c.b
      [] c.op = "Gt" -> x > c.a

\* func SubSetOf(expectedItems ...interface{}) TestDeep
SubSetOf(expectedItems) ==
    [kind |-> "subSet", ignoreDups |-> TRUE, expectedItems |-> expectedItems]

\* mutant of IgnoreDups: an expected item accounts for one item only
IgnoreDupsOff(s) == FALSE

\* "ignoring duplicates": an expected item accounts for every item it matches
IgnoreDups(s) == s.ignoreDups

\* the items of got, from index j on, expected item c accounts for: found
\* grows by the indexes taken, hit tells whether there was one
RECURSIVE FindItems(_, _, _, _, _, _)
FindItems(s, c, got, j, found, hit) ==
    IF j > Len(got) THEN [found |-> found, hit |-> hit]
    ELSE IF j \in found THEN FindItems(s, c, got, j + 1, found, hit)
    ELSE IF ItemMatches(c, got[j])
    THEN IF IgnoreDups(s) THEN FindItems(s, c, got, j + 1, found \cup {j}, TRUE)
         ELSE [found |-> found \cup {j}, hit |-> TRUE]
    ELSE FindItems(s, c, got, j + 1, found, hit)

\* every expected item in turn, from the i-th on: the indexes of got
\* accounted for and the expected items that matched nothing
RECURSIVE FindAll(_, _, _, _, _)
FindAll(s, got, i, found, missing) ==
    IF i > Len(s.expectedItems) THEN [found |-> found, missing |-> missing]
    ELSE LET r == FindItems(s, s.expectedItems[i], got, 1, found, FALSE)
         IN FindAll(s, got, i + 1, r.found,
                    IF r.hit THEN missing ELSE missing \cup {i})

\* Match of the operator: got must be an array or a slice; the items no
\* expected item accounts for are extra, an expected item that matched
\* nothing is missing unless the operator is a subset
SubSetMatch(s, got) ==
    IF got.k \notin {"slice", "array"}
    THEN [ok |-> FALSE, msg |-> "bad kind", extra |-> {}, missing |-> {}]
    ELSE LET r == FindAll(s, got.items, 1, {}, {})
             extra == DOMAIN got.items \ r.found
             missing == IF s.kind = "subSet" THEN {} ELSE r.missing
         IN [ok |-> extra = {} /\ missing = {},
             msg |-> IF extra = {} /\ missing = {} THEN "" ELSE "comparing %% as a SubSetOf",
             extra |-> extra, missing |-> missing]

Items == 1..MaxItem

\* the expected items of the model, and those of the documentation
Candidates == {Lit(1), Lit(3), Between(1, 2), Gt(2)}
DocItems ==
    {<<Lit(1), Lit(2), Lit(3), Lit(4), Lit(5), Lit(6), Lit(7), Lit(8)>>,
     <<Between(1, 4), Lit(3), Between(2, 10), Gt(100)>>}

\* what Match is given: arrays and slices of ints, the slice of the
\* documentation, and an int
DocGot == [k |-> "slice", items |-> <<1, 3, 5, 8, 8, 1, 2>>]
Gots ==
    {[k |-> k, items |-> is] :
        k \in {"slice", "array"}, is \in UNION {[1..n -> Items] : n \in 0..MaxItems}}
    \cup {DocGot, [k |-> "int", items |-> <<>>]}

NoResult == [ok |-> FALSE, msg |-> "", extra |-> {}, missing |-> {}]

NoSubSet ==
    sub = [op |-> "none", s |-> SubSetOf(<<>>), got |-> [k |-> "int", items |-> <<>>],
           r |-> NoResult]

\* SubSetOf(expectedItems...) has returned the operator, and got is the
\* value it is about to be matched against
NewSubSetOf ==
    \E items \in UNION {[1..n -> Candidates] : n \in 1..MaxCandidates} \cup DocItems :
        \E got \in Gots :
            sub = [op |-> "SubSetOf", s |-> SubSetOf(items), got |-> got, r |-> NoResult]

\* Cmp(t, got, SubSetOf(...)): the call of Match on the operator
CallSubSetMatch ==
    /\ sub.op = "SubSetOf"
    /\ sub' = [sub EXCEPT !.op = "Match", !.r = SubSetMatch(sub.s, sub.got)]

\* CmpSubSetOf(t, got, expectedItems): the operator is built and matched
CmpSubSetOf(items) ==
    /\ sub.op = "SubSetOf"
    /\ sub' = [sub EXCEPT !.op = "Match", !.s = SubSetOf(items),
                          !.r = SubSetMatch(SubSetOf(items), sub.got)]

subFrame == <<sortVars, delayVars, opVars, tagret, chain, buf, fp>>

DoSubSetMatch == CallSubSetMatch /\ UNCHANGED subFrame
DoCmpSubSetOf == (\E items \in DocItems : CmpSubSetOf(items)) /\ UNCHANGED subFrame

SubSetNext == DoSubSetMatch \/ DoCmpSubSetOf

(***************************************************************************)
(* Claims on SubSetOf.                                                     *)
(***************************************************************************)
\* C13: SubSetOf matches an array or a slice exactly when every item of it
\* is matched by at least one expected item: the order of the items, their
\* duplicates, the expected items left unused and the items several
\* expected items match change nothing; the items reported are those no
\* expected item matches.  [1,3,5,8,8,1,2] matches
\* SubSetOf(Between(1,4), 3, Between(2,10), Gt(100)), [1,1,2] does not
\* match SubSetOf(1,3).
C13_SubSetOfSemantics ==
    (sub.op = "Match" /\ sub.got.k \in {"slice", "array"}) =>
        LET got == sub.got.items
            expected == sub.s.expectedItems
            accepted(j) == \E i \in DOMAIN expected : ItemMatches(expected[i], got[j])
        IN /\ sub.r.ok = \A j \in DOMAIN got : accepted(j)
           /\ sub.r.extra = {j \in DOMAIN got : ~accepted(j)}
           /\ sub.r.missing = {}
           /\ (sub.got = DocGot /\ expected \in DocItems) => sub.r.ok
           /\ (got = <<1, 1, 2>> /\ expected = <<Lit(1), Lit(3)>>)
                 => (~sub.r.ok /\ sub.r.extra = {3})

\* C13 witness: the slice of the documentation matched the operator whose
\* first expected item takes the 3 the second one is written for
C13_Witness ==
    /\ sub.op = "Match" /\ sub.r.ok /\ sub.got = DocGot
    /\ sub.s.expectedItems = <<Between(1, 4), Lit(3), Between(2, 10), Gt(100)>>

(***************************************************************************)
(* Field paths: splitFieldPath, joinFieldPath, buildFieldPathFn and the    *)
(* accessor it returns.  A path is a sequence of characters; "a" stands    *)
(* for the letters, "1" for the digits, "%" for the other characters.      *)
(***************************************************************************)
PathChars == {"a", "1", ".", "[", "]", "%"}
Paths == UNION {[1..n -> PathChars] : n \in 0..MaxPath}

IsLetter(c) == c = "a"
IsNumber(c) == c = "1"

\* smuggleField
Field(name, indexed) == [Name |-> name, Indexed |-> indexed]

\* what splitFieldPath returns: the error ("nil" for none) and the steps
SplitError(err) == [err |-> err, steps |-> <<>>]

\* strings.IndexAny(s[i:], chars): the first position from i on holding
\* one of chars, 0 when there is none
RECURSIVE IndexAny(_, _, _)
IndexAny(s, i, chars) ==
    IF i > Len(s) THEN 0
    ELSE IF s[i] \in chars THEN i
    ELSE IndexAny(s, i + 1, chars)

\* a field name is letters and, after the first character, digits
BadName(field) ==
    \/ field = <<>>
    \/ \E j \in DOMAIN field : ~IsLetter(field[j]) /\ (j = 1 \/ ~IsNumber(field[j]))

\* the path from position i on, res being the steps already read: "[key]",
\* ".name", or "name" at the start and just after a "]"
RECURSIVE splitFrom(_, _, _)
splitFrom(s, i, res) ==
    IF i > Len(s) THEN [err |-> "nil", steps |-> res]
    ELSE IF s[i] = "["
    THEN LET end == IndexAny(s, i + 1, {"]"})
         IN IF end = 0 THEN SplitError("cannot find final ']'")
            ELSE splitFrom(s, end + 1, Append(res, Field(SubSeq(s, i + 1, end - 1), TRUE)))
    ELSE LET from == IF s[i] = "." THEN i + 1 ELSE i
             end == IndexAny(s, from, {".", "["})
             to == IF end = 0 THEN Len(s) ELSE end - 1
             field == SubSeq(s, from, to)
         IN IF (s[i] = "." /\ res = <<>>) \/ BadName(field)
            THEN SplitError("unexpected character")
            ELSE splitFrom(s, to + 1, Append(res, Field(field, FALSE)))

\* func splitFieldPath(origPath string) ([]smuggleField, error)
splitFieldPath(origPath) ==
    IF origPath = <<>> THEN SplitError("cannot be empty")
    ELSE splitFrom(origPath, 1, <<>>)

\* mutant of joinField: no "." is written before a name
joinFieldNoDot(i, part) == IF part.Indexed THEN <<"[">> \o part.Name \o <<"]">> ELSE part.Name

\* how joinFieldPath writes the i-th step: "[key]", "name" at the start,
\* ".name" after
joinField(i, part) ==
    IF part.Indexed THEN <<"[">> \o part.Name \o <<"]">>
    ELSE IF i > 1 THEN <<".">> \o part.Name
    ELSE part.Name

\* func joinFieldPath(path []smuggleField) string
RECURSIVE joinFrom(_, _)
joinFrom(path, i) ==
    IF i > Len(path) THEN <<>> ELSE joinField(i, path[i]) \o joinFrom(path, i + 1)

joinFieldPath(path) == joinFrom(path, 1)

\* mutant of buildFieldPathFn: the path is split when the accessor runs
buildFieldPathFnLazy(path) ==
    [built |-> TRUE, err |-> "nil", steps |-> splitFieldPath(path).steps]

\* func buildFieldPathFn(path string) (func(interface{}) (interface{}, error), error):
\* the accessor is the steps it walks
buildFieldPathFn(path) ==
    LET parts == splitFieldPath(path)
    IN IF parts.err # "nil" THEN [built |-> FALSE, err |-> parts.err, steps |-> <<>>]
       ELSE [built |-> TRUE, err |-> "nil", steps |-> parts.steps]

\* the values an accessor is run on, by address:
\*   1: 42                          2: struct{a: map (3), aa: 42}
\*   3: map[string]{"a": 42, "aa": struct 2}
\*   4: map[int]{1: 42}             5: []{42, struct 2}
\*   6: map[struct{A int}]{}        7: struct{a: slice (5), aa: map (4)}
Object(k, key, m, im) == [k |-> k, key |-> key, m |-> m, im |-> im]
ValueAt(p) ==
    CASE p = 1 -> Object("int", "", <<>>, <<>>)
      [] p = 2 -> Object("struct", "", (<<"a">> :> 3) @@ (<<"a", "a">> :> 1), <<>>)
      [] p = 3 -> Object("map", "string", (<<"a">> :> 1) @@ (<<"a", "a">> :> 2), <<>>)
      [] p = 4 -> Object("map", "int", <<>>, <<1>>)
      [] p = 5 -> Object("slice", "", <<>>, <<1, 2>>)
      [] p = 6 -> Object("map", "struct", <<>>, <<>>)
      [] p = 7 -> Object("struct", "", (<<"a">> :> 5) @@ (<<"a", "a">> :> 4), <<>>)
Roots == 1..7

\* strconv.ParseInt(s, 10, 64): whether s is a number, and which
IsInt(s) == s # <<>> /\ \A j \in DOMAIN s : IsNumber(s[j])
RECURSIVE ParseInt(_)
ParseInt(s) == IF s = <<>> THEN 0 ELSE 10 * ParseInt(SubSeq(s, 1, Len(s) - 1)) + 1

Resolved(err, p) == [err |-> err, v |-> p]

\* the accessor: from the i-th step on, v being the value reached
RECURSIVE walk(_, _, _)
walk(steps, i, v) ==
    IF i > Len(steps) THEN Resolved("nil", v)
    ELSE LET name == steps[i].Name
             o == ValueAt(v)
         IN IF ~steps[i].Indexed
            THEN IF o.k # "struct" THEN Resolved("should be a struct", 0)
                 ELSE IF name \notin DOMAIN o.m THEN Resolved("not found", 0)
                 ELSE walk(steps, i + 1, o.m[name])
            ELSE IF o.k = "map"
            THEN CASE o.key = "string" ->
                        IF name \in DOMAIN o.m THEN walk(steps, i + 1, o.m[name])
                        ELSE Resolved("map key not found", 0)
                   [] o.key = "int" ->
                        IF ~IsInt(name) THEN Resolved("is not an integer", 0)
                        ELSE IF ParseInt(name) \in DOMAIN o.im
                        THEN walk(steps, i + 1, o.im[ParseInt(name)])
                        ELSE Resolved("map key not found", 0)
                   [] OTHER -> Resolved("unsupported map key type", 0)
            ELSE IF o.k \in {"slice", "array"}
            THEN IF ~IsInt(name) THEN Resolved("is not a slice/array index", 0)
                 ELSE IF ParseInt(name) >= Len(o.im)
                 THEN Resolved("out of slice/array range", 0)
                 ELSE walk(steps, i + 1, o.im[ParseInt(name) + 1])
            ELSE Resolved("a map, array or slice is expected", 0)

NoPath ==
    fp = [op |-> "none", path |-> <<>>, err |-> "nil", steps |-> <<>>, text |-> <<>>,
          built |-> FALSE, root |-> 0, res |-> Resolved("nil", 0)]

\* a path text, before anything is done with it
PathGiven ==
    \E path \in Paths :
        fp = [op |-> "path", path |-> path, err |-> "nil", steps |-> <<>>, text |-> <<>>,
              built |-> FALSE, root |-> 0, res |-> Resolved("nil", 0)]

\* got, err := splitFieldPath(in)
Split ==
    LET parts == splitFieldPath(fp.path)
    IN fp' = [fp EXCEPT !.op = "split", !.err = parts.err, !.steps = parts.steps,
                        !.text = <<>>, !.built = FALSE, !.root = 0,
                        !.res = Resolved("nil", 0)]

\* joinFieldPath(got), got being what splitFieldPath returned
Join ==
    /\ fp.op = "split" /\ fp.err = "nil"
    /\ fp' = [fp EXCEPT !.op = "join", !.text = joinFieldPath(fp.steps)]

\* fn, err := buildFieldPathFn(path)
Build ==
    LET fn == buildFieldPathFn(fp.path)
    IN fp' = [fp EXCEPT !.op = "build", !.err = fn.err, !.steps = fn.steps,
                        !.text = <<>>, !.built = fn.built, !.root = 0,
                        !.res = Resolved("nil", 0)]

\* _, err = fn(got): only an accessor that was returned can be run
Run(root) ==
    /\ fp.op \in {"build", "run"} /\ fp.built
    /\ fp' = [fp EXCEPT !.op = "run", !.root = root, !.res = walk(fp.steps, 1, root)]

pathFrame == <<sortVars, delayVars, opVars, tagret, chain, buf, sub>>

DoSplit == Split /\ UNCHANGED pathFrame
DoJoin == Join /\ UNCHANGED pathFrame
DoBuild == Build /\ UNCHANGED pathFrame
DoRun == (\E root \in Roots : Run(root)) /\ UNCHANGED pathFrame

PathNext == DoSplit \/ DoJoin \/ DoBuild \/ DoRun

(***************************************************************************)
(* Claims on field paths.                                                  *)
(***************************************************************************)
\* s without its i-th character
Without(s, i) == SubSeq(s, 1, i - 1) \o SubSeq(s, i + 1, Len(s))

\* C14: for a path splitFieldPath accepts, joinFieldPath of its steps parses
\* again to the same steps; the path with a "." just after a "]" left out
\* parses to the same steps as the path with it; and when every name after
\* a "]" is written with its ".", joinFieldPath gives back the path itself.
C14_FieldPathRoundTrip ==
    fp.op = "join" =>
        LET s == fp.path
            same == [err |-> "nil", steps |-> fp.steps]
        IN /\ splitFieldPath(fp.text) = same
           /\ \A i \in 1..(Len(s) - 1) :
                  (s[i] = "]" /\ s[i + 1] = ".") => splitFieldPath(Without(s, i + 1)) = same
           /\ (\A i \in 1..(Len(s) - 1) : ~(s[i] = "]" /\ IsLetter(s[i + 1])))
                 => fp.text = s

\* C14 witness: "[a]a" was split and joined, to "[a].a"
C14_Witness ==
    /\ fp.op = "join" /\ fp.path = <<"[", "a", "]", "a">>
    /\ fp.text = <<"[", "a", "]", ".", "a">> /\ Len(fp.steps) = 2

SyntaxErrors == {"cannot be empty", "cannot find final ']'", "unexpected character"}

\* C15: the errors of the path text come from splitFieldPath and
\* buildFieldPathFn, with no steps and no accessor: an empty path, a "["
\* with no "]" after it, a character that cannot be in a name;
\* buildFieldPathFn returns an accessor exactly when the path splits; and
\* what an accessor returns on a value is never one of these errors.
C15_SyntaxErrorsAtCompileTime ==
    LET s == fp.path
    IN /\ fp.op \in {"split", "build"} =>
             /\ fp.err \in SyntaxErrors \cup {"nil"}
             /\ s = <<>> => fp.err = "cannot be empty"
             /\ (\E i \in DOMAIN s : s[i] = "[" /\ \A j \in (i + 1)..Len(s) : s[j] # "]")
                   => fp.err \in SyntaxErrors
             /\ ((\E i \in DOMAIN s : s[i] = "%") /\ (\A i \in DOMAIN s : s[i] # "["))
                   => fp.err = "unexpected character"
             /\ fp.err # "nil" => (fp.steps = <<>> /\ ~fp.built)
       /\ fp.op = "build" =>
             /\ fp.built = (splitFieldPath(s).err = "nil")
             /\ fp.err = splitFieldPath(s).err
       /\ fp.op = "run" =>
             /\ fp.built /\ fp.err = "nil" /\ splitFieldPath(s).err = "nil"
             /\ fp.res.err \notin SyntaxErrors
             /\ ValueAt(fp.root).k = "int" =>
                   fp.res.err \in {"should be a struct", "a map, array or slice is expected"}

\* C15 witness: the accessor of "[11]" was built, and run on a slice of two
\* values
C15_Witness ==
    /\ fp.op = "run" /\ fp.path = <<"[", "1", "1", "]">> /\ fp.root = 5
    /\ fp.res.err = "out of slice/array range"

(***************************************************************************)
(* The specifications: one per component, the others left unbuilt.         *)
(***************************************************************************)
NoSort ==
    /\ Slice = <<>> /\ Visited = NewVisited
    /\ last = [op |-> "none", i |-> 0, j |-> 0, r |-> 0, ovf |-> FALSE]

NoRest == NoTagCalls /\ NoAppend /\ NoPath /\ NoSubSet

SortInit == SortableValues /\ NoDelay /\ NoOps /\ NoRest

SortSpec == SortInit /\ [][SortNext]_vars

DelayInit == Delay /\ NoSort /\ NoOps /\ NoRest

DelaySpec == DelayInit /\ [][DelayNext]_vars

\* the wrapper under a fair scheduler
DelayLiveSpec ==
    DelayInit /\ [][DelayNext]_vars /\ \A t \in Threads : WF_vars(Running(t))

OpInit == NoOps /\ NoSort /\ NoDelay /\ NoRest

OpSpec == OpInit /\ [][OpNext]_vars

TagInit == NoOps /\ NoSort /\ NoDelay /\ NoRest

AppendInit == Returns /\ NoSort /\ NoDelay /\ NoOps /\ NoTagCalls /\ NoPath /\ NoSubSet

AppendSpec == AppendInit /\ [][AppendNext]_vars

SubSetInit == NewSubSetOf /\ NoSort /\ NoDelay /\ NoOps /\ NoTagCalls /\ NoAppend /\ NoPath

SubSetSpec == SubSetInit /\ [][SubSetNext]_vars

PathInit == PathGiven /\ NoSort /\ NoDelay /\ NoOps /\ NoTagCalls /\ NoAppend /\ NoSubSet

PathSpec == PathInit /\ [][PathNext]_vars

TagSpec == TagInit /\ [][TagNext]_vars

(***************************************************************************)
(* Claims on the sort adapter.                                             *)
(***************************************************************************)
\* what Less(i, j) returns when called in the current state
LessNow(i, j) == cmp(Visited, Slice[i], Slice[j], 0).r < 0
\* the two values the last Less compared
LastA == Slice[last.i]
LastB == Slice[last.j]
Sign(n) == IF n < 0 THEN -1 ELSE IF n > 0 THEN 1 ELSE 0

\* C3: the ordering exposed by SortableValues is a strict weak ordering on
\* every slice: irreflexive, asymmetric, transitive, and with a transitive
\* incomparability, NaN floats, mixed types and nil values included.
C3_StrictWeakOrdering ==
    \A i, j, k \in DOMAIN Slice :
        /\ ~LessNow(i, i)
        /\ LessNow(i, j) => ~LessNow(j, i)
        /\ LessNow(i, j) /\ LessNow(j, k) => LessNow(i, k)
        /\ (~LessNow(i, j) /\ ~LessNow(j, i) /\ ~LessNow(j, k) /\ ~LessNow(k, j))
              => (~LessNow(i, k) /\ ~LessNow(k, i))

\* C4: cmp terminates on every pair of same-typed values, self-referential
\* ones included: every Less returns a result, the calls of cmp never nest
\* deeper than MaxDepth, and two pointers that only lead to themselves and
\* to each other (type P *P) compare equal.
C4_CmpTerminates ==
    last.op = "Less" =>
        /\ ~last.ovf
        /\ (LastA.t = "main.P" /\ LastB.t = "main.P") => last.r = 0

\* C4 witness: a Less that compared two pointers of the cycle 5 -> 6 -> 5, or
\* two structs reaching themselves through two cycles, has returned
C4_Witness ==
    /\ last.op = "Less" /\ ~last.ovf
    /\ LastA.k = "ptr" /\ LastA.p \in {5, 7} /\ LastB.p \in {6, 8}
    /\ <<LastB.p, LastA.p>> \in Visited

OneNaN == Cardinality({i \in DOMAIN Slice : Slice[i].k = "float" /\ Slice[i].f.nan}) = 1
IsSorted == \A i, j \in DOMAIN Slice : i < j => ~LessNow(j, i)

\* C6: for floats a NaN is the minimum (cmp(NaN, x) = -1 and cmp(x, NaN) = 1
\* for a non-NaN x), so a sorted slice holding one NaN starts with it; complex
\* numbers are ordered by real part, and by imaginary part only when the real
\* parts are equal.
C6_NaNIsMinimum ==
    /\ (last.op = "Less" /\ LastA.k = "float" /\ LastB.k = "float") =>
          /\ (LastA.f.nan /\ ~LastB.f.nan) => last.r = -1
          /\ (~LastA.f.nan /\ LastB.f.nan) => last.r = 1
          /\ (~LastA.f.nan /\ ~LastB.f.nan) => last.r = Sign(LastA.f.x - LastB.f.x)
    /\ ((\A i \in DOMAIN Slice : Slice[i].k = "float") /\ OneNaN /\ IsSorted)
          => Slice[1].f.nan
    /\ (last.op = "Less" /\ LastA.k = "complex" /\ LastB.k = "complex") =>
          /\ (LastA.f.nan /\ ~LastB.f.nan) => last.r = -1
          /\ (~LastA.f.nan /\ LastB.f.nan) => last.r = 1
          /\ (~LastA.f.nan /\ ~LastB.f.nan /\ LastA.f.x # LastB.f.x)
                => last.r = Sign(LastA.f.x - LastB.f.x)
          /\ (~LastA.f.nan /\ ~LastB.f.nan /\ LastA.f.x = LastB.f.x) =>
                /\ (LastA.g.nan /\ ~LastB.g.nan) => last.r = -1
                /\ (~LastA.g.nan /\ LastB.g.nan) => last.r = 1
                /\ (~LastA.g.nan /\ ~LastB.g.nan) => last.r = Sign(LastA.g.x - LastB.g.x)

\* C6 witness: a slice of floats holding one NaN has been sorted by Less and
\* Swap calls, the last Less having compared a number with the NaN
C6_Witness ==
    /\ last.op = "Less" /\ LastA.k = "float" /\ ~LastA.f.nan /\ LastB.f.nan
    /\ last.r = 1 /\ Len(Slice) = MaxLen /\ OneNaN /\ IsSorted
    /\ \A i \in DOMAIN Slice : Slice[i].k = "float"

\* the first position, below the shorter length, where two []int differ
FirstDiff(a, b) ==
    LET maxl == IF a.n > b.n THEN b.n ELSE a.n
        D == {i \in 1..maxl : Backing(a.p)[i] # Backing(b.p)[i]}
    IN IF D = {} THEN 0 ELSE CHOOSE i \in D : \A m \in D : i <= m

\* C7: two maps of one type are ordered by length, and by address alone when
\* the lengths are equal; two slices by the first differing position below
\* the shorter length, and by length when no position differs.
C7_MapAndSliceOrder ==
    /\ (last.op = "Less" /\ LastA.k = "map" /\ LastB.k = "map") =>
          last.r = IF MapLen(LastA.p) # MapLen(LastB.p)
                   THEN Sign(MapLen(LastA.p) - MapLen(LastB.p))
                   ELSE Sign(LastA.p - LastB.p)
    /\ (last.op = "Less" /\ LastA.t = "[]int" /\ LastB.t = "[]int") =>
          LET d == FirstDiff(LastA, LastB)
          IN last.r = IF d # 0
                      THEN Sign(Backing(LastA.p)[d].n - Backing(LastB.p)[d].n)
                      ELSE Sign(LastA.n - LastB.n)

(***************************************************************************)
(* Claims on Delay under a fair scheduler.                                 *)
(***************************************************************************)
\* a call of thread t has returned, forwarded to a non-nil operator
Returned17(t) == pc[t] = "idle" /\ fwd[t] # {} /\ NilOp \notin fwd[t]

\* C17 as stated: every call of Match, String, TypeBehind or HandleInvalid
\* on a Delay wrapper eventually returns, forwarded to a non-nil operator,
\* also when the thunk calls a method of the wrapper or returns nil.
C17_EveryCallReturns ==
    \A t \in Threads : (pc[t] = "once") ~> Returned17(t)

\* C17, amended: when the thunk returns a non-nil operator without calling
\* the wrapper, every call eventually returns, forwarded to that operator
\* (each thread makes finitely many calls, so all of them have returned when
\* every thread is idle for good); a thread in a call of a wrapper whose
\* thunk calls the wrapper never returns; a call of a wrapper whose thunk
\* returns nil is never forwarded, and ends in a panic.
C17_CallReturnsWhenBuilt ==
    /\ (delayed # "reenter") => <>[](\A t \in Threads : pc[t] \in {"idle", "panic"})
    /\ [](delayed = "build" =>
              \A t \in Threads :
                  /\ pc[t] # "panic"
                  /\ (pc[t] = "idle" /\ ncalls[t] > 0) => (Returned17(t) /\ fwd[t] = {operator}))
    /\ [](delayed = "reenter" =>
              \A t \in Threads : ncalls[t] > 0 => pc[t] \notin {"idle", "forward", "panic"})
    /\ [](delayed = "nil" => \A t \in Threads : fwd[t] = {} /\ (ncalls[t] > 0 => pc[t] # "idle"))

\* C17 witness: every thread has made all its calls on a wrapper whose thunk
\* builds an operator, and each call was forwarded to it
C17_Witness ==
    /\ delayed = "build" /\ operator = 1
    /\ \A t \in Threads : ncalls[t] = MaxCalls /\ Returned17(t) /\ fwd[t] = {1}

====
